---- MODULE Spec2Model ----
(***************************************************************************)
(* A model of vault_objects.py: the Entry classes (LoginEntry,             *)
(* CreditCardEntry), Vault, VaultHandler, the Proton Pass loader and saver *)
(* and main().                                                             *)
(*                                                                         *)
(* Python dicts and object attribute tables (__dict__) are functions from  *)
(* strings: a key is present exactly when it is in the DOMAIN, d.get(k, x) *)
(* is Get(d, k, x), reading a missing attribute is an AttributeError.      *)
(* Python's None is the string "None" for string-valued keys.  Strings the *)
(* code parses (urls) are sequences of one-character strings.              *)
(* A call that may raise is an operator whose value is a record            *)
(* [raised |-> <exception name or "none">, ...] holding the state the call *)
(* leaves behind.                                                          *)
(***************************************************************************)
EXTENDS Integers, Sequences, FiniteSets, TLC

VARIABLES
    archive,      \* the inner document "Proton Pass/data.json" of the input file
    vault_names,  \* VaultHandler.vault_names: the name filter, a value of Python
                  \* [type |-> "NoneType" | "list" | "str", value |-> <its elements>]
    clock,        \* the readings datetime.datetime.now() gives, one per item
    vaults,       \* VaultHandler.vaults
    envelope,     \* VaultHandler.encrypted / user_id / version (set by the loader)
    pc,           \* the position of main()
    err,          \* the exception that ended main() ("none" when there is none)
    seen_items,   \* per vault processed: merge_duplicate_items' local seen_items
    merges,       \* the calls of Entry.merge made by the last deduplicate
    output        \* the destination file: whether it exists, and the document in it

vars == <<archive, vault_names, clock, vaults, envelope, pc, err, seen_items, merges, output>>

----------------------------------------------------------------------------
(* Bounds *)

MaxItems == 3
MaxTime == 2
MaxUrlLen == 4
MaxVaults == 2

----------------------------------------------------------------------------
(* Python values *)

None == "None"
NoDict == [k \in {} |-> None]
Get(d, k, default) == IF k \in DOMAIN d THEN d[k] ELSE default
Put(d, k, v) == [x \in DOMAIN d \cup {k} |-> IF x = k THEN v ELSE d[x]]
\* bool(s) of a str-or-None value
TruthyStr(s) == s # None /\ s # ""
Range(s) == {s[i] : i \in 1..Len(s)}
\* F(x): the value x is computed once and named in F
With(x, F(_)) == F(x)

----------------------------------------------------------------------------
(* urllib.parse.urlparse, as LoginEntry.clean_url uses it: the scheme and *)
(* the netloc of urlsplit.                                                 *)

LowerOf == [B |-> "b", E |-> "e"]
Letters == {"a", "b", "c", "e", "g", "h", "i", "l", "m", "n", "o", "p", "s", "t", "x"}
               \cup DOMAIN LowerOf
Digits == {"1"}
scheme_chars == Letters \cup Digits \cup {"+", "-", "."}
lower(c) == IF c \in DOMAIN LowerOf THEN LowerOf[c] ELSE c

\* the least index >= from of an element of cs in s, Len(s) + 1 when there is none
FindFrom(s, cs, from) ==
    LET hits == {i \in from..Len(s) : s[i] \in cs}
    IN IF hits = {} THEN Len(s) + 1 ELSE CHOOSE i \in hits : \A j \in hits : i <= j

\* url after its scheme and ":", split at the netloc
SplitNetloc(scheme, rest) ==
    [scheme |-> scheme,
     netloc |-> IF Len(rest) >= 2 /\ rest[1] = "/" /\ rest[2] = "/"
                THEN SubSeq(rest, 3, FindFrom(rest, {"/", "?", "#"}, 3) - 1)
                ELSE <<>>]

\* i is url.find(":") (counted from 1, Len(url) + 1 when there is none)
SplitScheme(url, i) ==
    IF /\ i <= Len(url)
       /\ i > 1
       /\ url[1] \in Letters
       /\ \A k \in 1..(i - 1) : url[k] \in scheme_chars
    THEN SplitNetloc([k \in 1..(i - 1) |-> lower(url[k])], SubSeq(url, i + 1, Len(url)))
    ELSE SplitNetloc(<<>>, url)

urlparse(url) == SplitScheme(url, FindFrom(url, {":"}, 1))

\* a clean_url that forgets the closing "/"
clean_url_no_slash(url) ==
    With(urlparse(url), LAMBDA parsed_url :
        IF parsed_url.scheme # <<>>
        THEN parsed_url.scheme \o <<":", "/", "/">> \o parsed_url.netloc
        ELSE url)

clean_url(url) ==
    With(urlparse(url), LAMBDA parsed_url :
        IF parsed_url.scheme # <<>>
        THEN parsed_url.scheme \o <<":", "/", "/">> \o parsed_url.netloc \o <<"/">>
        ELSE url)

RECURSIVE UniqueFrom(_, _, _)
UniqueFrom(lst, i, acc) ==
    IF i > Len(lst) THEN acc
    ELSE UniqueFrom(lst, i + 1, IF lst[i] \in Range(acc) THEN acc ELSE Append(acc, lst[i]))

unique_list(lst) == UniqueFrom(lst, 1, <<>>)

----------------------------------------------------------------------------
(* Entry and its subclasses.  An object is its attribute table; "cls" is   *)
(* its class.  self.data is the very dict item_dict["data"], so it is read *)
(* and written through item_dict.                                          *)

Raise(exc, obj) == [raised |-> exc, obj |-> obj]
Ok(obj) == [raised |-> "none", obj |-> obj]
Data(self) == Get(self.item_dict, "data", NoDict)
HasTruthyInt(d, k) == k \in DOMAIN d /\ d[k] # 0

\* Entry.__init__; now is the reading of datetime.datetime.now() (the three
\* consecutive readings of one construction are one reading; it is the wall
\* clock, which may be set back between two constructions), uid is uuid4()
Entry_init(item, now, uid) ==
    IF HasTruthyInt(item, "create_time") \/ HasTruthyInt(item, "modify_time")
    THEN Raise("TypeError", NoDict)      \* datetime.datetime(<one argument>)
    ELSE IF "type" \notin DOMAIN Get(item, "data", NoDict)
    THEN Raise("KeyError", NoDict)
    ELSE Ok([instance_time |-> now,
             item_dict |-> item,
             item_id |-> IF TruthyStr(Get(item, "id", None)) THEN item["id"] ELSE uid,
             name |-> Get(item, "name", None),
             state |-> Get(item, "state", 1),
             vault |-> Get(item, "vault", None),
             create_time |-> now,
             modify_time |-> now,
             favorite |-> Get(item, "favorite", FALSE),
             type |-> item["data"]["type"]])

\* the attributes LoginEntry.__init__ adds
LoginEntry_attrs(self, content, metadata) ==
    [cls |-> "LoginEntry",
     username |-> Get(content, "username", None),
     password |-> Get(content, "password", None),
     name |-> Get(metadata, "name", None),
     note |-> Get(metadata, "note", None),
     totp |-> Get(content, "totpUri", ""),
     urls |-> Get(content, "urls", <<>>),
     passkeys |-> Get(content, "passkeys", <<>>)] @@ self

LoginEntry_init(entry_data, now, uid) ==
    With(Entry_init(entry_data, now, uid), LAMBDA base :
        IF base.raised # "none" THEN base
        ELSE Ok(LoginEntry_attrs(base.obj, Get(Data(base.obj), "content", NoDict),
                                 Get(Data(base.obj), "metadata", NoDict))))

\* the attributes CreditCardEntry.__init__ adds
CreditCardEntry_attrs(self, content, metadata) ==
    [cls |-> "CreditCardEntry",
     cardholder_name |-> Get(content, "cardholderName", None),
     card_type |-> Get(content, "cardType", None),
     number |-> Get(content, "number", None),
     exp_date |-> Get(content, "expirationDate", None),
     pin |-> Get(content, "pin", None),
     code |-> Get(content, "code", None),
     name |-> Get(metadata, "name", None),
     note |-> Get(metadata, "note", None),
     uuid |-> Get(metadata, "itemUuid", None)] @@ self

CreditCardEntry_init(entry_data, now, uid) ==
    With(Entry_init(entry_data, now, uid), LAMBDA base :
        IF base.raised # "none" THEN base
        ELSE Ok(CreditCardEntry_attrs(base.obj, Get(Data(base.obj), "content", NoDict),
                                      Get(Data(base.obj), "metadata", NoDict))))

\* __hash__: Python's hash of a tuple of str/None values, taken as the tuple
\* itself (distinct tuples are given distinct hashes)
LoginEntry_hash(self) == <<self.type, self.name, self.username, self.password>>
CreditCardEntry_hash(self) == <<self.number, self.cardholder_name>>
Entry_hash(self) ==
    IF self.cls = "LoginEntry" THEN LoginEntry_hash(self) ELSE CreditCardEntry_hash(self)

\* __eq__ of both subclasses: isinstance(other, <class>) and equal hashes
Entry_eq(self, other) == other.cls = self.cls /\ Entry_hash(self) = Entry_hash(other)

\* LoginEntry.clean with clean_name = False, as Vault.clean_items calls it
LoginEntry_clean(self) ==
    IF self.urls # <<>>
    THEN [self EXCEPT !.urls = unique_list([i \in 1..Len(self.urls) |-> clean_url(self.urls[i])])]
    ELSE self

CreditCardEntry_clean(self) == self

Entry_clean(self) ==
    IF self.cls = "LoginEntry" THEN LoginEntry_clean(self) ELSE CreditCardEntry_clean(self)

\* the passkeys comprehension of LoginEntry._merge_entry: the first passkey of
\* each keyId
RECURSIVE UniqueByKeyId(_, _, _)
UniqueByKeyId(lst, i, acc) ==
    IF i > Len(lst) THEN acc
    ELSE UniqueByKeyId(lst, i + 1,
            IF Get(lst[i], "keyId", None) \in {Get(acc[j], "keyId", None) : j \in 1..Len(acc)}
            THEN acc ELSE Append(acc, lst[i]))

\* sorted_entries[0] taken where sorted_entries[-1] is meant
NewerOfTakesFirst(self, other) ==
    IF self.modify_time <= other.modify_time THEN self ELSE other

\* sorted((self, other), key=lambda x: x.modify_time)[-1]; sorted is stable
NewerOf(self, other) == IF self.modify_time <= other.modify_time THEN other ELSE self

\* lines 183-185 of LoginEntry._merge_entry, self holding the new urls, passkeys
\* and extraFields: newer.pinned is read first
LoginEntry_take_newer(self, newer) ==
    IF "pinned" \notin DOMAIN newer
    THEN Raise("AttributeError", self)
    ELSE Ok(Put(Put(Put(self, "pinned", newer["pinned"]),
                    "modify_time", newer.modify_time),
                "item_id", newer.item_id))

LoginEntry_merge_entry(self, other) ==
    IF ~Entry_eq(self, other) THEN Raise("ValueError", self)
    ELSE LoginEntry_take_newer(
             [self EXCEPT
                 !.urls = unique_list(self.urls \o other.urls),
                 !.passkeys = UniqueByKeyId(Get(Data(self), "passkeys", <<>>)
                                                \o Get(Data(other), "passkeys", <<>>), 1, <<>>),
                 !.item_dict = Put(self.item_dict, "data",
                                   Put(Data(self), "extraFields",
                                       Get(Data(self), "extraFields", <<>>)
                                           \o Get(Data(other), "extraFields", <<>>)))],
             NewerOf(self, other))

CreditCardEntry_merge_entry(self, other) ==
    IF ~Entry_eq(self, other) THEN Raise("ValueError", self)
    ELSE Ok(NewerOf(self, other))      \* self.__dict__ = deepcopy(newer.__dict__)

\* Entry.merge
Entry_merge(self, other_entry) ==
    IF other_entry.cls # self.cls THEN Raise("TypeError", self)
    ELSE IF self.cls = "LoginEntry" THEN LoginEntry_merge_entry(self, other_entry)
    ELSE CreditCardEntry_merge_entry(self, other_entry)

----------------------------------------------------------------------------
(* Vault *)

\* Vault._create_entry: some is FALSE where the code returns None
Vault_create_entry(item_data, now, uid) ==
    With(Get(Get(item_data, "data", NoDict), "type", None), LAMBDA entry_type :
        IF entry_type = "login"
        THEN With(LoginEntry_init(item_data, now, uid), LAMBDA made :
                 [raised |-> made.raised, some |-> made.raised = "none", obj |-> made.obj])
        ELSE IF entry_type = "creditCard"
        THEN With(CreditCardEntry_init(item_data, now, uid), LAMBDA made :
                 [raised |-> made.raised, some |-> made.raised = "none", obj |-> made.obj])
        ELSE [raised |-> "none", some |-> FALSE, obj |-> NoDict])

\* the loop of Vault.__init__ over vault_dict["items"], from item i on; the item
\* at place i is the (base + i)-th item the run constructs
RECURSIVE VaultItems(_, _, _, _)
VaultItems(items, i, base, acc) ==
    IF i > Len(items) THEN [raised |-> "none", items |-> acc]
    ELSE With(Vault_create_entry(items[i], clock[base + i], "uuid-" \o ToString(base + i)),
              LAMBDA entry :
                  IF entry.raised # "none" THEN [raised |-> entry.raised, items |-> acc]
                  ELSE VaultItems(items, i + 1, base,
                                  IF entry.some THEN Append(acc, entry.obj) ELSE acc))

Vault_init(id, name, vault_dict, base) ==
    With(VaultItems(Get(vault_dict, "items", <<>>), 1, base, <<>>), LAMBDA made :
        [raised |-> made.raised,
         obj |-> [id |-> id, name |-> name, items |-> made.items, vault_dict |-> vault_dict]])

Vault_clean_items(self) ==
    [self EXCEPT !.items = [i \in 1..Len(self.items) |-> Entry_clean(self.items[i])]]

\* the key of seen_items: (type(entry), hash(entry))
GroupKey(entry) == <<entry.cls, Entry_hash(entry)>>

\* seen_items after the grouping loop: the keys in the order of their first
\* entry, each with its entries in order
SeenItems(items) ==
    With(unique_list([i \in 1..Len(items) |-> GroupKey(items[i])]), LAMBDA keys :
        [g \in 1..Len(keys) |->
            [key |-> keys[g],
             entries |-> SelectSeq(items, LAMBDA e : GroupKey(e) = keys[g])]])

\* the inner loop of merge_duplicate_items: merged_entry.merge(other_entry) for
\* the entries from place i on; log records each call
RECURSIVE MergeInto(_, _, _, _)
MergeInto(merged_entry, entries, i, log) ==
    IF i > Len(entries) THEN [raised |-> "none", obj |-> merged_entry, log |-> log]
    ELSE With(Entry_merge(merged_entry, entries[i]), LAMBDA r :
             With(Append(log, [self |-> merged_entry, other |-> entries[i],
                               result |-> r.obj, raised |-> r.raised]),
                  LAMBDA log2 :
                      IF r.raised # "none"
                      THEN [raised |-> r.raised, obj |-> r.obj, log |-> log2]
                      ELSE MergeInto(r.obj, entries, i + 1, log2)))

\* the outer loop of merge_duplicate_items, from group g on: acc is self.items
RECURSIVE MergeGroups(_, _, _, _)
MergeGroups(groups, g, acc, log) ==
    IF g > Len(groups) THEN [raised |-> "none", items |-> acc, log |-> log]
    ELSE With(MergeInto(groups[g].entries[1], groups[g].entries, 2, log), LAMBDA m :
             IF m.raised # "none" THEN [raised |-> m.raised, items |-> acc, log |-> m.log]
             ELSE MergeGroups(groups, g + 1, Append(acc, m.obj), m.log))

Vault_merge_duplicate_items(self, log) ==
    With(SeenItems(self.items), LAMBDA groups :
        With(MergeGroups(groups, 1, <<>>, log), LAMBDA m :
            [raised |-> m.raised, obj |-> [self EXCEPT !.items = m.items],
             seen_items |-> groups, log |-> m.log]))

----------------------------------------------------------------------------
(* ProtonPassLoader, VaultHandler, ProtonPassSaver *)

\* the items of the vaults of the archive before place v
RECURSIVE ItemsBefore(_, _)
ItemsBefore(vs, v) == IF v <= 1 THEN 0
                      ELSE ItemsBefore(vs, v - 1) + Len(Get(vs[v - 1].dict, "items", <<>>))

\* the characters of the vault names (a str is the sequence of its characters)
Spell == [Personal |-> <<"P", "e", "r", "s", "o", "n", "a", "l">>,
          Person |-> <<"P", "e", "r", "s", "o", "n">>,
          Work |-> <<"W", "o", "r", "k">>]
PyNone == [type |-> "NoneType", value |-> <<>>]
PyList(lst) == [type |-> "list", value |-> lst]
PyStr(name) == [type |-> "str", value |-> Spell[name]]
\* bool(x) of None, a list or a str
Truthy(x) == x.type # "NoneType" /\ Len(x.value) > 0
\* needle in hay, of two str
str_contains(hay, needle) ==
    \E i \in 1..(Len(hay) - Len(needle) + 1) : SubSeq(hay, i, i + Len(needle) - 1) = needle
\* an In that looks at the first element only
In_first(name, x) == IF x.type = "str" THEN <<x.value[1]>> = Spell[name]
                     ELSE name = x.value[1]

\* name in x, of a str name and a list or a str x
In(name, x) == IF x.type = "str" THEN str_contains(x.value, Spell[name])
               ELSE name \in Range(x.value)

\* the loop of load_data over data["vaults"].items(), from place v on
RECURSIVE LoadVaults(_, _, _)
LoadVaults(vs, v, acc) ==
    IF v > Len(vs) THEN [raised |-> "none", vaults |-> acc]
    ELSE IF Truthy(vault_names) /\ "name" \notin DOMAIN vs[v].dict
    THEN [raised |-> "KeyError", vaults |-> acc]
    ELSE IF ~Truthy(vault_names) \/ In(vs[v].dict["name"], vault_names)
    THEN With(Vault_init(vs[v].id, Get(vs[v].dict, "name", None), vs[v].dict,
                         ItemsBefore(vs, v)),
              LAMBDA made :
                  IF made.raised # "none" THEN [raised |-> made.raised, vaults |-> acc]
                  ELSE LoadVaults(vs, v + 1, Append(acc, made.obj)))
    ELSE LoadVaults(vs, v + 1, acc)

\* the end of load_data, the vaults loop having ended as loaded: a KeyError
\* leaves as a ValueError
LoadEnvelope(data, loaded) ==
    IF loaded.raised = "KeyError" \/ (loaded.raised = "none"
                                        /\ {"encrypted", "userId", "version"} \ DOMAIN data # {})
    THEN [raised |-> "ValueError", vaults |-> <<>>, envelope |-> NoDict]
    ELSE IF loaded.raised # "none"
    THEN [raised |-> loaded.raised, vaults |-> <<>>, envelope |-> NoDict]
    ELSE [raised |-> "none", vaults |-> loaded.vaults,
          envelope |-> [encrypted |-> data["encrypted"], user_id |-> data["userId"],
                        version |-> data["version"]]]

ProtonPassLoader_load_data(data) ==
    LoadEnvelope(data, IF "vaults" \in DOMAIN data THEN LoadVaults(data["vaults"], 1, <<>>)
                       ELSE [raised |-> "KeyError", vaults |-> <<>>])

\* VaultHandler.deduplicate_in_vaults, from vault v on
RECURSIVE DeduplicateFrom(_, _, _, _)
DeduplicateFrom(vs, v, seen, log) ==
    IF v > Len(vs) THEN [raised |-> "none", vaults |-> vs, seen_items |-> seen, log |-> log]
    ELSE With(Vault_merge_duplicate_items(vs[v], log), LAMBDA m :
             IF m.raised # "none"
             THEN [raised |-> m.raised, vaults |-> [vs EXCEPT ![v] = m.obj],
                   seen_items |-> Append(seen, m.seen_items), log |-> m.log]
             ELSE DeduplicateFrom([vs EXCEPT ![v] = m.obj], v + 1,
                                  Append(seen, m.seen_items), m.log))

\* A file at the destination path: whether it exists, the members of the zip
\* archive in it, the document of the member data.json, and whether the archive
\* was closed (its central directory written).
ZipDir == "Proton Pass/"
ZipData == "Proton Pass/data.json"
ZipFile(members, doc, closed) ==
    [exists |-> TRUE, members |-> members, doc |-> doc, closed |-> closed]
NoFile == [exists |-> FALSE, members |-> <<>>, doc |-> NoDict, closed |-> FALSE]

\* the operations of save_data on the file system, one of which may fail
\* (an OSError: no permission, no space left); "none" when none fails
IOFailures == {"none", "open", "writestr_dir", "writestr_data", "close", "debug_copy"}

\* ProtonPassSaver.save_data, io being the operation at which the file system
\* fails.  data_to_save["vaults"][vault.id] of the first vault is a KeyError;
\* every exception leaves as a ValueError.  ZipFile(output_file, "w") creates
\* or truncates the destination itself; leaving the with block after a failed
\* writestr closes the archive.
ProtonPassSaver_save_data(file, handler_vaults, handler_envelope, io) ==
    IF {"encrypted", "user_id", "version"} \ DOMAIN handler_envelope # {}
    THEN [raised |-> "ValueError", file |-> file]
    ELSE IF Len(handler_vaults) > 0
    THEN [raised |-> "ValueError", file |-> file]
    ELSE IF io = "open"
    THEN [raised |-> "ValueError", file |-> file]
    ELSE IF io = "writestr_dir"
    THEN [raised |-> "ValueError", file |-> ZipFile(<<>>, NoDict, TRUE)]
    ELSE IF io = "writestr_data"
    THEN [raised |-> "ValueError", file |-> ZipFile(<<ZipDir>>, NoDict, TRUE)]
    ELSE [raised |-> IF io = "none" THEN "none" ELSE "ValueError",
          file |-> ZipFile(<<ZipDir, ZipData>>,
                           [encrypted |-> handler_envelope["encrypted"],
                            userId |-> handler_envelope["user_id"],
                            version |-> handler_envelope["version"],
                            vaults |-> <<>>],
                           io # "close")]

----------------------------------------------------------------------------
(* main() *)

\* the exceptions main() catches and logs
Caught == {"BadZipFile", "FileNotFoundError", "ValueError", "KeyError"}

\* the exit status of the process once main() is over: main() returns after
\* logging an exception it catches, and the script ends; any other exception
\* leaves main() and ends the interpreter with status 1
ExitStatus == IF err = "none" \/ err \in Caught THEN 0 ELSE 1

Load ==
    /\ pc = "load"
    /\ \E r \in {ProtonPassLoader_load_data(archive)} :
          /\ vaults' = r.vaults
          /\ envelope' = r.envelope
          /\ err' = r.raised
          /\ pc' = IF r.raised = "none" THEN "clean" ELSE "done"
    /\ UNCHANGED <<archive, vault_names, clock, seen_items, merges, output>>

CleanVaults ==
    /\ pc = "clean"
    /\ vaults' = [v \in 1..Len(vaults) |-> Vault_clean_items(vaults[v])]
    /\ pc' = "dedup"
    /\ UNCHANGED <<archive, vault_names, clock, envelope, err, seen_items, merges, output>>

DeduplicateInVaults ==
    /\ pc = "dedup"
    /\ \E r \in {DeduplicateFrom(vaults, 1, <<>>, <<>>)} :
          /\ vaults' = r.vaults
          /\ seen_items' = r.seen_items
          /\ merges' = r.log
          /\ err' = r.raised
          /\ pc' = IF r.raised = "none" THEN "save" ELSE "done"
    /\ UNCHANGED <<archive, vault_names, clock, envelope, output>>

SaveData ==
    /\ pc = "save"
    /\ \E io \in IOFailures :
          \E r \in {ProtonPassSaver_save_data(output, vaults, envelope, io)} :
              /\ output' = r.file
              /\ err' = r.raised
    /\ pc' = "done"
    /\ UNCHANGED <<archive, vault_names, clock, vaults, envelope, seen_items, merges>>

Next == Load \/ CleanVaults \/ DeduplicateInVaults \/ SaveData

----------------------------------------------------------------------------
(* Inputs: archives in the shape of a Proton Pass export *)

Url_https_login == <<"h", "t", "t", "p", "s", ":", "/", "/", "E", "x", "a", "m", "p", "l", "e",
                     ".", "c", "o", "m", "/", "l", "o", "g", "i", "n">>
Url_https_base == <<"h", "t", "t", "p", "s", ":", "/", "/", "E", "x", "a", "m", "p", "l", "e",
                    ".", "c", "o", "m", "/">>
Url_http == <<"h", "t", "t", "p", ":", "/", "/", "e", "x", "a", "m", "p", "l", "e",
              ".", "c", "o", "m">>
Url_label == <<"e", "x", "a", "m", "p", "l", "e">>

SeqsUpTo(S, n) == UNION {[1..k -> S] : k \in 0..n}

ProtonItem(item_id, data, more) ==
    more @@ [itemId |-> item_id, shareId |-> "share-1", state |-> 1,
             contentFormatVersion |-> 4, modifyTime |-> 1700000000, data |-> data]

LoginData(name, username, password, totpUri, urls, passkeys) ==
    [metadata |-> [name |-> name, note |-> "", itemUuid |-> "uuid-a"],
     extraFields |-> <<>>,
     type |-> "login",
     content |-> [username |-> username, password |-> password, urls |-> urls,
                  totpUri |-> totpUri, passkeys |-> passkeys, itemEmail |-> "bob@example.com"]]

CardData(number, cardholderName, expirationDate, pin, note) ==
    [metadata |-> [name |-> "Card", note |-> note, itemUuid |-> "uuid-c"],
     extraFields |-> <<>>,
     type |-> "creditCard",
     content |-> [cardholderName |-> cardholderName, cardType |-> "visa", number |-> number,
                  expirationDate |-> expirationDate, verificationNumber |-> "123",
                  pin |-> pin]]

Login1 == ProtonItem("item-1",
              LoginData("Example", "bob", "pw1", "", <<Url_https_login>>,
                        <<[keyId |-> "k1", domain |-> "example.com"]>>), NoDict)
Login2 == ProtonItem("item-2",
              LoginData("Example", "bob", "pw1", "otpauth://totp/x", <<Url_http, Url_https_base>>,
                        <<[keyId |-> "k2", domain |-> "example.com"]>>),
              [favorite |-> TRUE])
Login3 == ProtonItem("item-3",
              LoginData("Example", "bob", "pw1", "", <<Url_label, Url_https_login>>,
                        <<[keyId |-> "k1", domain |-> "example.org"]>>), NoDict)
Login4 == ProtonItem("item-4",
              LoginData("Example", "bob", "pw2", "", <<Url_https_login>>, <<>>), NoDict)
LoginTimed == ProtonItem("item-5",
              LoginData("Example", "bob", "pw1", "", <<>>, <<>>),
              [modify_time |-> 1700000000])
Card1 == ProtonItem("item-6", CardData("4111", "Jane Doe", "2030-01", "1111", ""), NoDict)
Card2 == ProtonItem("item-7", CardData("4111", "Jane Doe", "2031-02", "2222", "renewed"), NoDict)
Card3 == ProtonItem("item-8", CardData("4111", "John Doe", "2030-01", "3333", ""), NoDict)
NoteItem == ProtonItem("item-9",
              [metadata |-> [name |-> "Note", note |-> "text", itemUuid |-> "uuid-n"],
               extraFields |-> <<>>, type |-> "note", content |-> NoDict], NoDict)
UntypedItem == ProtonItem("item-10",
              [metadata |-> [name |-> "Odd", note |-> "", itemUuid |-> "uuid-o"],
               extraFields |-> <<>>, content |-> NoDict], NoDict)

Items == {Login1, Login2, Login3, Login4, LoginTimed, Card1, Card2, Card3, NoteItem, UntypedItem}
CardItems == {Card1, Card2, Card3, Login1}

VaultDoc(id, name, items) ==
    [id |-> id,
     dict |-> [name |-> name, description |-> "", display |-> [color |-> 2, icon |-> 2],
               items |-> items]]

Archive(vs) == [encrypted |-> FALSE, userId |-> "user-1", version |-> "1.25.0", vaults |-> vs]

NItems(data) == ItemsBefore(data["vaults"], Len(data["vaults"]) + 1)

\* a file left at the destination path by an earlier export
OldFile == ZipFile(<<ZipDir, ZipData>>,
                   [encrypted |-> FALSE, userId |-> "user-0", version |-> "1.24.0",
                    vaults |-> <<>>], TRUE)

\* the state at the start of main(): nothing loaded, the destination path free
\* or taken by an earlier file.  The
\* module is taken as imported with VAULT_LOADERS and VAULT_SAVERS defined; as
\* written, line 30 (UUID() without an argument) raises at import, and run as a
\* script main() is called before the two registries are defined.
InitRun ==
    /\ vaults = <<>>
    /\ envelope = NoDict
    /\ pc = "load"
    /\ err = "none"
    /\ seen_items = <<>>
    /\ merges = <<>>
    /\ output \in {NoFile, OldFile}

InitOf(pool) ==
    /\ archive \in {Archive(<<>>)}
           \cup {Archive(<<VaultDoc("vault-1", "Personal", items)>>) :
                    items \in SeqsUpTo(pool, MaxItems)}
    /\ vault_names = PyNone
    /\ clock \in [1..NItems(archive) -> 1..MaxTime]
    /\ InitRun

Init == InitOf(Items)
Spec == Init /\ [][Next]_vars

InitCards == InitOf(CardItems)
SpecCards == InitCards /\ [][Next]_vars

\* the urls of one login: every short string over UrlChars, alone or extended by
\* a suffix, alone or beside urls it may fall together with
UrlChars == {"a", "B", ":", "/", "?"}
UrlSuffixes == {<<>>, <<"/", "B", "/", "a">>, <<"1", ":", "/", "/", "a", "?", "a">>}
Url_ab == <<"a", ":", "/", "/", "B", "/">>
Url_b3 == <<"b", ":", "/", "/", "/">>
UrlLists(u) == {<<u>>, <<u, Url_ab>>, <<Url_ab, Url_b3, u>>}
UrlLogin(urls) ==
    ProtonItem("item-1", LoginData("Example", "bob", "pw1", "", urls, <<>>), NoDict)

InitClean ==
    /\ archive \in {Archive(<<VaultDoc("vault-1", "Personal", <<UrlLogin(urls), Card1>>)>>) :
                       urls \in UNION {UrlLists(h \o x) :
                                          h \in SeqsUpTo(UrlChars, MaxUrlLen), x \in UrlSuffixes}}
    /\ vault_names = PyNone
    /\ clock = [i \in 1..NItems(archive) |-> 1]
    /\ InitRun
SpecClean == InitClean /\ [][Next]_vars

\* archives of up to MaxVaults vaults, each with a name or without one, and the
\* filters main() takes: None, a list (empty, of one name, of two) or a str
VaultNames == DOMAIN Spell
VaultIds == [n \in 1..(MaxVaults + 1) |->
                <<"vault-1", "vault-2", "vault-3", "vault-4">>[IF n <= 4 THEN n ELSE 4]]
Without(d, k) == [x \in DOMAIN d \ {k} |-> d[x]]
NamelessVaultDoc(id, items) == [id |-> id, dict |-> Without(VaultDoc(id, None, items).dict, "name")]
FilterItems == {<<>>, <<Login1>>, <<Card1, NoteItem>>}
FilterVaults(n) ==
    {VaultDoc(VaultIds[n], name, items) : name \in VaultNames, items \in FilterItems}
        \cup {NamelessVaultDoc(VaultIds[n], items) : items \in FilterItems}
FilterArchives(n) ==
    {Archive(vs) : vs \in {vs \in SeqsUpTo(UNION {FilterVaults(k) : k \in 1..n}, n) :
                              \A k \in 1..Len(vs) : vs[k].id = VaultIds[k]}}
Filters == {PyNone, PyList(<<>>), PyList(<<"Personal">>), PyList(<<"Work", "Personal">>),
            PyStr("Personal"), PyStr("Work")}

InitFilter ==
    /\ archive \in FilterArchives(MaxVaults)
    /\ vault_names \in Filters
    /\ clock = [i \in 1..NItems(archive) |-> 1]
    /\ InitRun
SpecFilter == InitFilter /\ [][Next]_vars

----------------------------------------------------------------------------
(* Properties *)

Max(a, b) == IF a >= b THEN a ELSE b
\* the operand of a merge that is not the more recently modified one
OlderOf(self, other) == IF self.modify_time <= other.modify_time THEN self ELSE other
NoDuplicates(lst) == \A i, j \in 1..Len(lst) : lst[i] = lst[j] => i = j
FirstIndex(lst, x) == FindFrom(lst, {x}, 1)
\* res holds the elements of src, each once, in the order of their first
\* occurrence in src
FirstSeenOrder(src, res) ==
    /\ Range(res) = Range(src)
    /\ NoDuplicates(res)
    /\ \A i, j \in 1..Len(res) : i < j => FirstIndex(src, res[i]) < FirstIndex(src, res[j])
KeyIds(passkeys) == {Get(passkeys[i], "keyId", None) : i \in 1..Len(passkeys)}
MergesOf(cls) == {k \in 1..Len(merges) : merges[k].self.cls = cls}
\* main() is past deduplicate_in_vaults, which went over vault v
Deduplicated(v) == pc \in {"save", "done"} /\ v <= Len(seen_items)
\* main() called save_data
SaveCalled == pc = "done" /\ envelope # NoDict /\ err \in {"none", "ValueError"}
RawUrls(entry) == Get(Get(Data(entry), "content", NoDict), "urls", <<>>)
HasScheme(url) == urlparse(url).scheme # <<>>
\* url reads scheme://host/ : a lower-case scheme, "://", a host holding none of
\* "/", "?", "#", and one closing "/"
IsBaseUrl(url) ==
    \E i \in 2..(Len(url) - 3) :
        /\ url[1] \in Letters
        /\ \A k \in 1..(i - 1) : url[k] \in scheme_chars /\ lower(url[k]) = url[k]
        /\ url[i] = ":" /\ url[i + 1] = "/" /\ url[i + 2] = "/"
        /\ \A k \in (i + 3)..(Len(url) - 1) : url[k] \notin {"/", "?", "#"}
        /\ url[Len(url)] = "/"
\* scheme://host/ of a url with a scheme, the url itself without
BaseOf(url) ==
    IF HasScheme(url)
    THEN urlparse(url).scheme \o <<":", "/", "/">> \o urlparse(url).netloc \o <<"/">>
    ELSE url

\* C7: a merge of two CreditCard records with equal (number, cardholderName)
\* succeeds and leaves self equal, in every attribute, to the operand with the
\* later modify_time, whichever of the two self is (other when the two times
\* are equal); and the record a deduplicate without error leaves for a group of
\* cards is one of the group's records with the greatest modify_time.
CardMergeTakesNewer ==
    /\ \A k \in MergesOf("CreditCardEntry") :
          /\ merges[k].raised = "none"
          /\ merges[k].self.modify_time > merges[k].other.modify_time
                => merges[k].result = merges[k].self
          /\ merges[k].self.modify_time <= merges[k].other.modify_time
                => merges[k].result = merges[k].other
    /\ \A v \in 1..Len(vaults) : Deduplicated(v) /\ err # "AttributeError" =>
          \A g \in 1..Len(seen_items[v]) :
              seen_items[v][g].key[1] = "CreditCardEntry" =>
                  /\ vaults[v].items[g] \in Range(seen_items[v][g].entries)
                  /\ \A e \in Range(seen_items[v][g].entries) :
                         e.modify_time <= vaults[v].items[g].modify_time

\* C7 witness: two cards with different expiry were merged, self the older
CardMergeWitness ==
    \E k \in MergesOf("CreditCardEntry") :
        /\ merges[k].self.modify_time < merges[k].other.modify_time
        /\ merges[k].self.exp_date # merges[k].other.exp_date
        /\ merges[k].result.exp_date = merges[k].other.exp_date
        /\ merges[k].result.pin = merges[k].other.pin
        /\ pc = "save"

\* C7 witness of the other order: self was the newer card and was kept
CardMergeSelfNewer ==
    \E k \in MergesOf("CreditCardEntry") :
        /\ merges[k].self.modify_time > merges[k].other.modify_time
        /\ merges[k].self.exp_date # merges[k].other.exp_date
        /\ merges[k].result.exp_date = merges[k].self.exp_date

\* C8: after clean_vaults, for every login: cleaning it again changes nothing;
\* its urls are the urls of its item with every url that has a scheme replaced
\* by scheme://host/ and every other url as it was, each once, in the order of
\* first occurrence; so every url with a scheme reads scheme://host/.  A credit
\* card is as its constructor made it.
CleanIsIdempotent ==
    pc = "dedup" =>
        \A v \in 1..Len(vaults) : \A i \in 1..Len(vaults[v].items) :
            /\ Entry_clean(vaults[v].items[i]) = vaults[v].items[i]
            /\ vaults[v].items[i].cls = "LoginEntry" =>
                  /\ FirstSeenOrder([k \in 1..Len(RawUrls(vaults[v].items[i])) |->
                                        BaseOf(RawUrls(vaults[v].items[i])[k])],
                                    vaults[v].items[i].urls)
                  /\ \A u \in Range(vaults[v].items[i].urls) : HasScheme(u) => IsBaseUrl(u)
                  /\ \A u \in Range(RawUrls(vaults[v].items[i])) :
                         ~HasScheme(u) => u \in Range(vaults[v].items[i].urls)
            /\ vaults[v].items[i].cls = "CreditCardEntry" =>
                  vaults[v].items[i] =
                      CreditCardEntry_init(vaults[v].items[i].item_dict,
                                           vaults[v].items[i].modify_time,
                                           vaults[v].items[i].item_id).obj

\* C8 witness: a login of three different urls was cleaned to two, the third
\* having become the first, beside a credit card
CleanWitness ==
    /\ pc = "dedup"
    /\ \E v \in 1..Len(vaults) :
          /\ \E i \in 1..Len(vaults[v].items) : vaults[v].items[i].cls = "CreditCardEntry"
          /\ \E i \in 1..Len(vaults[v].items) :
                /\ vaults[v].items[i].cls = "LoginEntry"
                /\ Len(RawUrls(vaults[v].items[i])) = 3
                /\ NoDuplicates(RawUrls(vaults[v].items[i]))
                /\ vaults[v].items[i].urls = <<Url_ab, Url_b3>>

\* C1: the groups of merge_duplicate_items partition the records by
\* (class, key): every record is in exactly one group, two records are in the
\* same group exactly when class and key agree; and after deduplicate the vault
\* holds exactly one record per group, no two of its records share class and
\* key, and a second deduplicate changes nothing.
DeduplicateLeavesOnePerGroup ==
    \A v \in 1..Len(vaults) :
        /\ pc = "dedup" =>
              /\ \A i \in 1..Len(vaults[v].items) :
                    Cardinality({g \in 1..Len(SeenItems(vaults[v].items)) :
                                    vaults[v].items[i]
                                        \in Range(SeenItems(vaults[v].items)[g].entries)}) = 1
              /\ \A g, h \in 1..Len(SeenItems(vaults[v].items)) :
                    \A a \in Range(SeenItems(vaults[v].items)[g].entries) :
                        \A b \in Range(SeenItems(vaults[v].items)[h].entries) :
                            (g = h) <=> (a.cls = b.cls /\ Entry_hash(a) = Entry_hash(b))
        /\ pc \in {"save", "done"} /\ Len(seen_items) > 0 =>
              /\ v <= Len(seen_items)
              /\ Len(vaults[v].items) = Len(seen_items[v])
              /\ \A g \in 1..Len(seen_items[v]) :
                    \E i \in 1..Len(vaults[v].items) :
                        GroupKey(vaults[v].items[i]) = seen_items[v][g].key
              /\ \A i, j \in 1..Len(vaults[v].items) :
                    GroupKey(vaults[v].items[i]) = GroupKey(vaults[v].items[j]) => i = j
              /\ Vault_merge_duplicate_items(vaults[v], <<>>).obj = vaults[v]

\* C2: a merge of two logins leaves self.urls the urls of self followed by the
\* new urls of other, each once; merging the other way round gives the same
\* set; and after deduplicate the record of each group of logins carries the
\* urls of every record of the group.
LoginMergeUnitesUrls ==
    /\ \A k \in MergesOf("LoginEntry") :
          /\ FirstSeenOrder(merges[k].self.urls \o merges[k].other.urls, merges[k].result.urls)
          /\ Range(Entry_merge(merges[k].other, merges[k].self).obj.urls)
                = Range(merges[k].result.urls)
    /\ \A v \in 1..Len(vaults) : pc \in {"save", "done"} /\ Len(seen_items) > 0 =>
          /\ v <= Len(seen_items)
          /\ \A g \in 1..Len(seen_items[v]) :
                seen_items[v][g].key[1] = "LoginEntry" =>
                    \E i \in 1..Len(vaults[v].items) :
                        /\ GroupKey(vaults[v].items[i]) = seen_items[v][g].key
                        /\ Range(vaults[v].items[i].urls)
                              = UNION {Range(e.urls) : e \in Range(seen_items[v][g].entries)}

\* C3: a merge of two logins leaves self.passkeys the passkeys of self followed
\* by those of other, the first of each keyId: every keyId of either operand is
\* there exactly once.
LoginMergeUnitesPasskeys ==
    \A k \in MergesOf("LoginEntry") :
        /\ KeyIds(merges[k].result.passkeys)
              = KeyIds(merges[k].self.passkeys) \cup KeyIds(merges[k].other.passkeys)
        /\ \A i, j \in 1..Len(merges[k].result.passkeys) :
              Get(merges[k].result.passkeys[i], "keyId", None)
                  = Get(merges[k].result.passkeys[j], "keyId", None) => i = j
        /\ \A pk \in Range(merges[k].result.passkeys) :
              pk = (merges[k].self.passkeys \o merges[k].other.passkeys)[
                       CHOOSE i \in 1..Len(merges[k].self.passkeys \o merges[k].other.passkeys) :
                           /\ Get((merges[k].self.passkeys \o merges[k].other.passkeys)[i],
                                  "keyId", None) = Get(pk, "keyId", None)
                           /\ \A j \in 1..(i - 1) :
                                 Get((merges[k].self.passkeys \o merges[k].other.passkeys)[j],
                                     "keyId", None) # Get(pk, "keyId", None)]

\* C4: a merge of two logins leaves self.modify_time the greater of the two
\* modify_times, and after deduplicate the record of each group of logins has
\* the greatest modify_time of the group.
LoginMergeTakesLatestTime ==
    /\ \A k \in MergesOf("LoginEntry") :
          merges[k].result.modify_time
              = Max(merges[k].self.modify_time, merges[k].other.modify_time)
    /\ \A v \in 1..Len(vaults) : pc \in {"save", "done"} /\ Len(seen_items) > 0 =>
          /\ v <= Len(seen_items)
          /\ \A g \in 1..Len(seen_items[v]) :
                seen_items[v][g].key[1] = "LoginEntry" =>
                    \E i \in 1..Len(vaults[v].items) :
                        /\ GroupKey(vaults[v].items[i]) = seen_items[v][g].key
                        /\ \A e \in Range(seen_items[v][g].entries) :
                              e.modify_time <= vaults[v].items[i].modify_time
                        /\ \E e \in Range(seen_items[v][g].entries) :
                              e.modify_time = vaults[v].items[i].modify_time

\* C5: after a merge of two logins, self.favorite is true exactly when the
\* favorite of one of the two operands was.
LoginMergeKeepsFavorite ==
    \A k \in MergesOf("LoginEntry") :
        merges[k].result.favorite = (merges[k].self.favorite \/ merges[k].other.favorite)

\* the value of attribute f after a merge that prefers the more recently
\* modified operand's value when it is not empty
PreferNewer(self, other, f) ==
    IF TruthyStr(NewerOf(self, other)[f]) THEN NewerOf(self, other)[f]
    ELSE OlderOf(self, other)[f]

\* C6: after a merge of two logins, each of username, password and totp is the
\* more recently modified operand's value when that is not empty, and the other
\* operand's otherwise.
LoginMergePrefersNewerScalars ==
    \A k \in MergesOf("LoginEntry") : \A f \in {"username", "password", "totp"} :
        merges[k].result[f] = PreferNewer(merges[k].self, merges[k].other, f)

\* the keys of an item, of its metadata and of its content that to_dict writes
OwnedKeys == {"itemId", "type", "createTime", "modifyTime", "pinned", "aliasEmail", "data"}
OwnedMetadata == {"name", "note", "itemUuid"}
OwnedContent == {"username", "password", "urls", "totpUri", "passkeys", "cardholderName",
                 "cardType", "number", "expirationDate", "code"}
\* saved carries every key of item that is not owned, with its value
KeepsUnowned(saved, item, owned) ==
    \A key \in DOMAIN item \ owned : key \in DOMAIN saved /\ saved[key] = item[key]
KeepsRawPayload(saved, item) ==
    /\ KeepsUnowned(saved, item, OwnedKeys)
    /\ "data" \in DOMAIN saved
    /\ KeepsUnowned(saved["data"], item["data"], {"metadata", "content", "extraFields"})
    /\ KeepsUnowned(Get(saved["data"], "metadata", NoDict),
                    Get(item["data"], "metadata", NoDict), OwnedMetadata)
    /\ KeepsUnowned(Get(saved["data"], "content", NoDict),
                    Get(item["data"], "content", NoDict), OwnedContent)

\* C9: once save_data was called, for every record of every vault the
\* destination file holds a document with the encrypted, userId and version of
\* the archive and an item carrying every key of the record's item that the
\* model does not own, with its value.
SaveKeepsRawPayload ==
    SaveCalled =>
        \A v \in 1..Len(vaults) : \A i \in 1..Len(vaults[v].items) :
            /\ output.exists
            /\ output.doc["encrypted"] = archive["encrypted"]
            /\ output.doc["userId"] = archive["userId"]
            /\ output.doc["version"] = archive["version"]
            /\ \E w \in 1..Len(output.doc["vaults"]) :
                  /\ output.doc["vaults"][w].id = vaults[v].id
                  /\ \E j \in 1..Len(output.doc["vaults"][w].dict["items"]) :
                        KeepsRawPayload(output.doc["vaults"][w].dict["items"][j],
                                        vaults[v].items[i].item_dict)

\* the vault of the archive that vault v of the handler was made from
ArchiveVault(v) ==
    CHOOSE w \in 1..Len(archive["vaults"]) : archive["vaults"][w].id = vaults[v].id

\* C10: when load_data returns, every vault holds as many records as its
\* document has items; and load_data raises only when an item lacks the field
\* that gives its type.
LoadKeepsEveryItem ==
    /\ pc = "clean" =>
          \A v \in 1..Len(vaults) :
              Len(vaults[v].items) = Len(Get(archive["vaults"][ArchiveVault(v)].dict, "items", <<>>))
    /\ pc = "done" /\ envelope = NoDict =>
          \E w \in 1..Len(archive["vaults"]) :
              \E item \in Range(Get(archive["vaults"][w].dict, "items", <<>>)) :
                  "type" \notin DOMAIN Get(item, "data", NoDict)

\* vault w of the archive has a name, and the list vault_names holds it
Named(w) == /\ "name" \in DOMAIN archive["vaults"][w].dict
            /\ archive["vaults"][w].dict["name"] \in Range(vault_names.value)
IdsOf(vs) == [v \in 1..Len(vs) |-> vs[v].id]
\* the vaults of the archive the list vault_names names, in the archive's order
NamedVaults ==
    SelectSeq([w \in 1..Len(archive["vaults"]) |->
                  [id |-> archive["vaults"][w].id, place |-> w]],
              LAMBDA x : Named(x.place))
\* the handler holds exactly the vaults the list vault_names names
OnlyNamedVaults ==
    /\ IdsOf(vaults) = IdsOf(NamedVaults)
    /\ \A v \in 1..Len(vaults) : vaults[v].name \in Range(vault_names.value)
\* the handler holds every vault of the archive
EveryVault == IdsOf(vaults) = IdsOf(archive["vaults"])

\* C12 as stated: when load_data returns, the vaults of the handler are, with
\* a filter (a list of names), exactly the vaults of the archive whose name is
\* in the list; without a filter (None), every vault of the archive.
FilterKeepsNamedVaults ==
    pc = "clean" =>
        /\ vault_names.type = "list" => OnlyNamedVaults
        /\ vault_names.type = "NoneType" => EveryVault

\* C12 amended: when load_data returns, the vaults of the handler are, with a
\* filter that is a list of at least one name, exactly the vaults of the
\* archive whose name is in the list, in the archive's order and each under its
\* name; with no filter (None) or an empty list, every vault of the archive.
FilterKeepsNamedVaultsOfList ==
    pc = "clean" =>
        /\ vault_names.type = "list" /\ Len(vault_names.value) > 0 => OnlyNamedVaults
        /\ vault_names.type = "NoneType" \/ vault_names = PyList(<<>>) => EveryVault

\* C12 witness: the list ["Personal"] on an archive of the vaults "Personal"
\* and "Work" gave one vault, named "Personal"
FilterWitness ==
    /\ pc = "clean"
    /\ vault_names = PyList(<<"Personal">>)
    /\ Len(archive["vaults"]) = 2
    /\ {archive["vaults"][w].dict["name"] : w \in {w \in 1..2 : "name" \in DOMAIN archive["vaults"][w].dict}}
           = {"Personal", "Work"}
    /\ Len(vaults) = 1
    /\ vaults[1].name = "Personal"

\* the archive at the destination holds both members and the whole document,
\* and is closed
Complete(file) ==
    /\ file.exists
    /\ file.closed
    /\ file.members = <<ZipDir, ZipData>>
    /\ file.doc # NoDict

\* C11: at every point of a run the destination is as it was before the run
\* (absent, or the earlier file) or holds a complete archive, so it is never
\* seen partly written, whichever step fails; and a run that ended with an
\* exception ends with a non-zero exit status.
NoPartialOutput ==
    /\ output \in {NoFile, OldFile} \/ Complete(output)
    /\ pc = "done" /\ err # "none" => ExitStatus # 0

====
